---- MODULE Spec2Model ----
(***************************************************************************)
(* The reserved-state delegation engine of simperby                        *)
(* (common/src/reserved.rs): the members of a ReservedState, the two       *)
(* transaction-application functions apply_delegate / apply_undelegate,    *)
(* the name/key resolution functions and the two aggregation functions     *)
(* get_validator_set / get_governance_set.                                 *)
(*                                                                         *)
(* Option<T> is modelled as a sequence of length 0 (None) or 1 (Some(x)).  *)
(* A Vec whose order the code leaves to HashMap iteration is a bag.        *)
(***************************************************************************)
EXTENDS Integers, Sequences, FiniteSets, Bags, TLC

VARIABLES state, prev, last, hist, out,
          repository, consensus, governance, tasks, pc, nlast

\* The variables outside the transaction engine: out is what the last
\* query of the voting-power sets returned.
queryVars == <<out>>

\* The engine's variables.
reservedVars == <<state, prev, last, hist>>

\* The node: its three collaborators, the three sub-fetches of a fetch in
\* progress, where the node is (idle or inside fetch), and the last command
\* with the collaborator calls it made and what it returned.
nodeVars == <<repository, consensus, governance, tasks, pc, nlast>>

vars == <<state, prev, last, hist, queryVars, nodeVars>>

(***************************************************************************)
(* Bounds of the model.                                                    *)
(***************************************************************************)
\* The initial state draws the voting powers of the members from a base
\* value in 0..MaxBase (see PowerProfile).
MaxBase == 1

\* The longest sequence of calls the recorded runs (SpecTrace) make.
MaxTrace == 2

\* The number of blocks the repository creates at most.
MaxBlocks == 1

\* The wall-clock readings get_timestamp() returns are in 1..MaxTime.
MaxTime == 1

\* The number of blocks finalized, at most, while the node runs.
MaxFinalized == 1

None == <<>>

Some(x) == <<x>>

(***************************************************************************)
(* Public keys are byte strings; their Display form is the lower-case hex  *)
(* encoding of the bytes.                                                  *)
(***************************************************************************)
HexDigit == <<"0", "1", "2", "3", "4", "5", "6", "7",
              "8", "9", "a", "b", "c", "d", "e", "f">>

RECURSIVE to_string(_)
to_string(key) ==
    IF key = <<>> THEN ""
    ELSE HexDigit[(Head(key) \div 16) + 1] \o HexDigit[(Head(key) % 16) + 1]
         \o to_string(Tail(key))

\* The roster: the public keys and names of the members, in Vec order.
MemberKeys == << <<2, 10>>, <<3, 11>> >>

MemberNames == <<"member-0000", "member-0001">>

\* A well-formed public key that belongs to no member.
StrangerKey == <<2, 12>>

Keys == {MemberKeys[i] : i \in DOMAIN MemberKeys} \cup {StrangerKey}

Idx == DOMAIN MemberKeys

Names == {MemberNames[i] : i \in Idx}

OptName == {None} \cup {Some(n) : n \in Names}

GenesisInfo == [chain_name |-> "test-chain"]

(***************************************************************************)
(* Voting powers.  Member i has consensus power 2^(i-1) * (base + 1) and   *)
(* governance power consensus power + 8 * (base + 1), so that every set of *)
(* members has its own sum and no sum of governance powers equals a sum of *)
(* consensus powers.                                                       *)
(***************************************************************************)
PowerProfile(base) ==
    [i \in Idx |->
        [consensus  |-> (2 ^ (i - 1)) * (base + 1),
         governance |-> (2 ^ (i - 1)) * (base + 1) + 8 * (base + 1)]]

Member(i, power, cd, gd) ==
    [public_key              |-> MemberKeys[i],
     name                    |-> MemberNames[i],
     governance_voting_power |-> power.governance,
     consensus_voting_power  |-> power.consensus,
     governance_delegatee    |-> gd,
     consensus_delegatee     |-> cd]

ReservedState(members) ==
    [genesis_info           |-> GenesisInfo,
     members                |-> members,
     consensus_leader_order |-> MemberNames,
     version                |-> "0.1.0"]

(***************************************************************************)
(* Name/key resolution: linear scans, first match wins.                    *)
(***************************************************************************)
RECURSIVE QueryNameFrom(_, _, _)
QueryNameFrom(members, i, public_key) ==
    IF i > Len(members) THEN None
    ELSE IF members[i].public_key = public_key THEN Some(members[i].name)
    ELSE QueryNameFrom(members, i + 1, public_key)

query_name(self, public_key) == QueryNameFrom(self.members, 1, public_key)

RECURSIVE QueryPublicKeyFrom(_, _, _)
QueryPublicKeyFrom(members, i, name) ==
    IF i > Len(members) THEN None
    ELSE IF members[i].name = name THEN Some(members[i].public_key)
    ELSE QueryPublicKeyFrom(members, i + 1, name)

query_public_key(self, name) == QueryPublicKeyFrom(self.members, 1, name)

(***************************************************************************)
(* Voting-power aggregation.  The HashMap<MemberName, VotingPower> is a    *)
(* function on the set of its keys; the Vec collected from its iterator is *)
(* a bag of (public_key, voting_power) pairs.  The voting powers of the    *)
(* model stay far below 2^64, so that += never overflows.                  *)
(***************************************************************************)
EmptyMap == [n \in {} |-> 0]

\* Credit with insert in place of and_modify/or_insert: the last member
\* routed to a bucket overwrites what the bucket held.
CreditOverwrite(map, key, power) ==
    [n \in DOMAIN map \cup {key} |-> IF n = key THEN power ELSE map[n]]

\* map.entry(key).and_modify(|v| *v += power).or_insert(power)
Credit(map, key, power) ==
    IF key \in DOMAIN map
    THEN [map EXCEPT ![key] = @ + power]
    ELSE [n \in DOMAIN map \cup {key} |-> IF n = key THEN power ELSE map[n]]

\* ValidatorBucket ignoring the delegation.
ValidatorBucketOwn(member) == member.name

\* The bucket a member's power goes to in get_validator_set.
ValidatorBucket(member) ==
    IF member.consensus_delegatee # None
    THEN member.consensus_delegatee[1]
    ELSE member.name

\* The name a chain of consensus delegations starting at name ends at,
\* following at most fuel hops.
RECURSIVE ChaseConsensus(_, _, _)
ChaseConsensus(members, name, fuel) ==
    LET at == {j \in DOMAIN members : members[j].name = name}
    IN  IF fuel = 0 \/ at = {} THEN name
        ELSE LET j == CHOOSE k \in at : TRUE
             IN  IF members[j].consensus_delegatee = None
                    \/ members[j].consensus_delegatee = Some(name)
                 THEN name
                 ELSE ChaseConsensus(members, members[j].consensus_delegatee[1], fuel - 1)

\* ValidatorMap following the delegations of the delegatees.
RECURSIVE ValidatorMapTransitive(_, _, _)
ValidatorMapTransitive(members, i, map) ==
    IF i > Len(members) THEN map
    ELSE ValidatorMapTransitive(members, i + 1,
             Credit(map, ChaseConsensus(members, members[i].name, Len(members)),
                    members[i].consensus_voting_power))

RECURSIVE ValidatorMap(_, _, _)
ValidatorMap(members, i, map) ==
    IF i > Len(members) THEN map
    ELSE ValidatorMap(members, i + 1,
             Credit(map, ValidatorBucket(members[i]),
                    members[i].consensus_voting_power))

\* The bucket a member's power goes to in get_governance_set.
GovernanceBucket(member) ==
    IF member.governance_delegatee # None
    THEN member.governance_delegatee[1]
    ELSE member.name

\* GovernanceCredit reading the governance power of the member.
GovernanceCreditOwnField(member) == member.governance_voting_power

\* The power get_governance_set credits for a member.
GovernanceCredit(member) == member.consensus_voting_power

RECURSIVE GovernanceMap(_, _, _)
GovernanceMap(members, i, map) ==
    IF i > Len(members) THEN map
    ELSE GovernanceMap(members, i + 1,
             Credit(map, GovernanceBucket(members[i]),
                    GovernanceCredit(members[i])))

\* map.iter().map(|(name, voting_power)|
\*     (self.query_public_key(name).unwrap(), *voting_power)).collect()
RECURSIVE CollectPairs(_, _, _)
CollectPairs(self, map, names) ==
    IF names = {} THEN EmptyBag
    ELSE LET name == CHOOSE n \in names : TRUE
         IN  SetToBag({<<query_public_key(self, name)[1], map[name]>>})
             (+) CollectPairs(self, map, names \ {name})

\* unwrap() panics on a name that is no member's.
Collect(self, map) ==
    IF \E name \in DOMAIN map : query_public_key(self, name) = None
    THEN [panicked |-> TRUE, value |-> EmptyBag]
    ELSE [panicked |-> FALSE, value |-> CollectPairs(self, map, DOMAIN map)]

get_validator_set(self) == Collect(self, ValidatorMap(self.members, 1, EmptyMap))

get_governance_set(self) == Collect(self, GovernanceMap(self.members, 1, EmptyMap))

(***************************************************************************)
(* Result<Self, String>: Ok(self.clone()) or Err(message).                 *)
(***************************************************************************)
Ok(value) == [ok |-> TRUE, err |-> "", value |-> Some(value)]

Err(msg) == [ok |-> FALSE, err |-> msg, value |-> None]

ErrDelegatorUnknown == "delegator does not exist by name"

ErrDelegateeUnknown == "delegatee does not exist by name"

ErrDelegateeEmpty == "delegatee field cannot be empty"

ErrNothingDelegated == "nothing was delegated. please check your transaction again."

ErrGovernanceNotSet == "governance delegatee is not set"

ErrConsensusNotSet == "consensus delegatee is not set"

ErrNothingUndelegated == "nothing was undelegated. please check your transaction again."

\* The transactions: TxDelegate and TxUndelegate carry the same fields.  The
\* engine never reads proof and timestamp, which are left out.
Tx == [delegator : Keys, delegatee : Keys, governance : BOOLEAN]

(***************************************************************************)
(* apply_delegate                                                          *)
(***************************************************************************)
\* DelegateMember setting only governance_delegatee when tx.governance.
DelegateMemberGovernanceOnly(delegator, tx, delegatee_name) ==
    IF tx.governance
    THEN [delegator EXCEPT !.governance_delegatee = Some(delegatee_name)]
    ELSE [delegator EXCEPT !.consensus_delegatee = Some(delegatee_name)]

\* DelegateMember storing the delegatee's key, as a string, for its name.
DelegateMemberByKey(delegator, tx, delegatee_name) ==
    IF tx.governance
    THEN [delegator EXCEPT !.governance_delegatee = Some(to_string(tx.delegatee)),
                           !.consensus_delegatee = Some(to_string(tx.delegatee))]
    ELSE [delegator EXCEPT !.consensus_delegatee = Some(to_string(tx.delegatee))]

\* DelegateMember setting both fields whatever tx.governance is.
DelegateMemberBoth(delegator, tx, delegatee_name) ==
    [delegator EXCEPT !.governance_delegatee = Some(delegatee_name),
                      !.consensus_delegatee = Some(delegatee_name)]

\* The assignments to the matching member.
DelegateMember(delegator, tx, delegatee_name) ==
    IF tx.governance
    THEN [delegator EXCEPT !.governance_delegatee = Some(delegatee_name),
                           !.consensus_delegatee = Some(delegatee_name)]
    ELSE [delegator EXCEPT !.consensus_delegatee = Some(delegatee_name)]

\* DelegateLoop matching the members by the delegatee's name.
RECURSIVE DelegateLoopOnDelegatee(_, _, _, _, _, _)
DelegateLoopOnDelegatee(members, i, tx, delegator_name, delegatee_name, updated) ==
    IF i > Len(members)
    THEN [members |-> members, updated |-> updated, returned |-> None]
    ELSE IF members[i].name = delegatee_name
    THEN DelegateLoopOnDelegatee(
             [members EXCEPT ![i] = [@ EXCEPT !.consensus_delegatee = Some(delegatee_name)]],
             i + 1, tx, delegator_name, delegatee_name, TRUE)
    ELSE DelegateLoopOnDelegatee(members, i + 1, tx, delegator_name, delegatee_name,
                                 updated)

\* for delegator in &mut self.members { ... }: the members as mutated so
\* far, whether one was updated, and the early return if one was taken.
\* DelegateLoop matching the members by the Display form of tx.delegator.
RECURSIVE DelegateLoopByKey(_, _, _, _, _, _)
DelegateLoopByKey(members, i, tx, delegator_name, delegatee_name, updated) ==
    IF i > Len(members)
    THEN [members |-> members, updated |-> updated, returned |-> None]
    ELSE IF members[i].name = to_string(tx.delegator)
    THEN DelegateLoopByKey(
             [members EXCEPT ![i] = DelegateMember(members[i], tx, delegatee_name)],
             i + 1, tx, delegator_name, delegatee_name, TRUE)
    ELSE DelegateLoopByKey(members, i + 1, tx, delegator_name, delegatee_name, updated)

RECURSIVE DelegateLoop(_, _, _, _, _, _)
DelegateLoop(members, i, tx, delegator_name, delegatee_name, updated) ==
    IF i > Len(members)
    THEN [members |-> members, updated |-> updated, returned |-> None]
    ELSE IF members[i].name = delegator_name
    THEN IF to_string(tx.delegatee) = ""
         THEN [members |-> members, updated |-> updated,
               returned |-> Some(ErrDelegateeEmpty)]
         ELSE DelegateLoop(
                  [members EXCEPT ![i] = DelegateMember(members[i], tx, delegatee_name)],
                  i + 1, tx, delegator_name, delegatee_name, TRUE)
    ELSE DelegateLoop(members, i + 1, tx, delegator_name, delegatee_name, updated)

\* apply_delegate rejecting a delegator that names itself.
apply_delegate_rejecting_self(self, tx) ==
    LET delegator_name == query_name(self, tx.delegator)
        delegatee_name == query_name(self, tx.delegatee)
    IN  IF delegator_name = None
        THEN [self |-> self, result |-> Err(ErrDelegatorUnknown)]
        ELSE IF delegatee_name = None
        THEN [self |-> self, result |-> Err(ErrDelegateeUnknown)]
        ELSE IF delegator_name = delegatee_name
        THEN [self |-> self, result |-> Err(ErrDelegateeEmpty)]
        ELSE LET loop == DelegateLoop(self.members, 1, tx, delegator_name[1],
                                      delegatee_name[1], FALSE)
                 after == [self EXCEPT !.members = loop.members]
             IN  IF loop.returned # None
                 THEN [self |-> after, result |-> Err(loop.returned[1])]
                 ELSE IF loop.updated
                 THEN [self |-> after, result |-> Ok(after)]
                 ELSE [self |-> after, result |-> Err(ErrNothingDelegated)]

\* apply_delegate resolving the delegatee's name with the delegator's key.
apply_delegate_copied_lookup(self, tx) ==
    LET delegator_name == query_name(self, tx.delegator)
        delegatee_name == query_name(self, tx.delegator)
    IN  IF delegator_name = None
        THEN [self |-> self, result |-> Err(ErrDelegatorUnknown)]
        ELSE IF delegatee_name = None
        THEN [self |-> self, result |-> Err(ErrDelegateeUnknown)]
        ELSE LET loop == DelegateLoop(self.members, 1, tx, delegator_name[1],
                                      delegatee_name[1], FALSE)
                 after == [self EXCEPT !.members = loop.members]
             IN  IF loop.returned # None
                 THEN [self |-> after, result |-> Err(loop.returned[1])]
                 ELSE IF loop.updated
                 THEN [self |-> after, result |-> Ok(after)]
                 ELSE [self |-> after, result |-> Err(ErrNothingDelegated)]

\* The value of *self after the call, and the value returned.
apply_delegate(self, tx) ==
    LET delegator_name == query_name(self, tx.delegator)
        delegatee_name == query_name(self, tx.delegatee)
    IN  IF delegator_name = None
        THEN [self |-> self, result |-> Err(ErrDelegatorUnknown)]
        ELSE IF delegatee_name = None
        THEN [self |-> self, result |-> Err(ErrDelegateeUnknown)]
        ELSE LET loop == DelegateLoop(self.members, 1, tx, delegator_name[1],
                                      delegatee_name[1], FALSE)
                 after == [self EXCEPT !.members = loop.members]
             IN  IF loop.returned # None
                 THEN [self |-> after, result |-> Err(loop.returned[1])]
                 ELSE IF loop.updated
                 THEN [self |-> after, result |-> Ok(after)]
                 ELSE [self |-> after, result |-> Err(ErrNothingDelegated)]

(***************************************************************************)
(* apply_undelegate                                                        *)
(***************************************************************************)
\* UndelegateMember clearing governance_delegatee whatever tx.governance is.
UndelegateMemberClearsBoth(delegator, tx) ==
    IF delegator.consensus_delegatee # None
    THEN IF tx.governance /\ delegator.governance_delegatee = None
         THEN [member   |-> [delegator EXCEPT !.consensus_delegatee = None],
               updated  |-> FALSE,
               returned |-> Some(ErrGovernanceNotSet)]
         ELSE [member   |-> [delegator EXCEPT !.consensus_delegatee = None,
                                              !.governance_delegatee = None],
               updated  |-> TRUE,
               returned |-> None]
    ELSE [member   |-> delegator,
          updated  |-> FALSE,
          returned |-> Some(ErrConsensusNotSet)]

\* UndelegateMember clearing consensus_delegatee only when tx.governance.
UndelegateMemberKeepsConsensus(delegator, tx) ==
    IF delegator.consensus_delegatee # None
    THEN IF tx.governance
         THEN IF delegator.governance_delegatee # None
              THEN [member   |-> [delegator EXCEPT !.consensus_delegatee = None,
                                                   !.governance_delegatee = None],
                    updated  |-> TRUE,
                    returned |-> None]
              ELSE [member   |-> [delegator EXCEPT !.consensus_delegatee = None],
                    updated  |-> FALSE,
                    returned |-> Some(ErrGovernanceNotSet)]
         ELSE [member |-> delegator, updated |-> TRUE, returned |-> None]
    ELSE [member   |-> delegator,
          updated  |-> FALSE,
          returned |-> Some(ErrConsensusNotSet)]

\* UndelegateMember not requiring governance_delegatee to be set.
UndelegateMemberLenient(delegator, tx) ==
    IF delegator.consensus_delegatee # None
    THEN [member   |-> IF tx.governance
                       THEN [delegator EXCEPT !.consensus_delegatee = None,
                                              !.governance_delegatee = None]
                       ELSE [delegator EXCEPT !.consensus_delegatee = None],
          updated  |-> TRUE,
          returned |-> None]
    ELSE [member   |-> delegator,
          updated  |-> FALSE,
          returned |-> Some(ErrConsensusNotSet)]

\* UndelegateMember clearing governance_delegatee of a member whose
\* consensus_delegatee is unset.
UndelegateMemberGovernanceAlone(delegator, tx) ==
    IF delegator.consensus_delegatee # None \/
       (tx.governance /\ delegator.governance_delegatee # None)
    THEN LET cleared == [delegator EXCEPT !.consensus_delegatee = None]
         IN  IF tx.governance
             THEN IF delegator.governance_delegatee # None
                  THEN [member   |-> [cleared EXCEPT !.governance_delegatee = None],
                        updated  |-> TRUE,
                        returned |-> None]
                  ELSE [member   |-> cleared,
                        updated  |-> FALSE,
                        returned |-> Some(ErrGovernanceNotSet)]
             ELSE [member |-> cleared, updated |-> TRUE, returned |-> None]
    ELSE [member   |-> delegator,
          updated  |-> FALSE,
          returned |-> Some(ErrConsensusNotSet)]

\* The body of the loop for the matching member: the member as left by the
\* body, whether delegator_updated was set, and the early return if taken.
UndelegateMember(delegator, tx) ==
    IF delegator.consensus_delegatee # None
    THEN LET cleared == [delegator EXCEPT !.consensus_delegatee = None]
         IN  IF tx.governance
             THEN IF delegator.governance_delegatee # None
                  THEN [member   |-> [cleared EXCEPT !.governance_delegatee = None],
                        updated  |-> TRUE,
                        returned |-> None]
                  ELSE [member   |-> cleared,
                        updated  |-> FALSE,
                        returned |-> Some(ErrGovernanceNotSet)]
             ELSE [member |-> cleared, updated |-> TRUE, returned |-> None]
    ELSE [member   |-> delegator,
          updated  |-> FALSE,
          returned |-> Some(ErrConsensusNotSet)]

RECURSIVE UndelegateLoop(_, _, _, _, _)
UndelegateLoop(members, i, tx, delegator_name, updated) ==
    IF i > Len(members)
    THEN [members |-> members, updated |-> updated, returned |-> None]
    ELSE IF members[i].name = delegator_name
    THEN LET body == UndelegateMember(members[i], tx)
             next == [members EXCEPT ![i] = body.member]
         IN  IF body.returned # None
             THEN [members |-> next, updated |-> updated, returned |-> body.returned]
             ELSE UndelegateLoop(next, i + 1, tx, delegator_name, body.updated)
    ELSE UndelegateLoop(members, i + 1, tx, delegator_name, updated)

\* apply_undelegate resolving tx.delegatee as apply_delegate does.
apply_undelegate_checked_delegatee(self, tx) ==
    LET delegator_name == query_name(self, tx.delegator)
    IN  IF delegator_name = None
        THEN [self |-> self, result |-> Err(ErrDelegatorUnknown)]
        ELSE IF query_name(self, tx.delegatee) = None
        THEN [self |-> self, result |-> Err(ErrDelegateeUnknown)]
        ELSE LET loop == UndelegateLoop(self.members, 1, tx, delegator_name[1], FALSE)
                 after == [self EXCEPT !.members = loop.members]
             IN  IF loop.returned # None
                 THEN [self |-> after, result |-> Err(loop.returned[1])]
                 ELSE IF loop.updated
                 THEN [self |-> after, result |-> Ok(after)]
                 ELSE [self |-> after, result |-> Err(ErrNothingUndelegated)]

apply_undelegate(self, tx) ==
    LET delegator_name == query_name(self, tx.delegator)
    IN  IF delegator_name = None
        THEN [self |-> self, result |-> Err(ErrDelegatorUnknown)]
        ELSE LET loop == UndelegateLoop(self.members, 1, tx, delegator_name[1], FALSE)
                 after == [self EXCEPT !.members = loop.members]
             IN  IF loop.returned # None
                 THEN [self |-> after, result |-> Err(loop.returned[1])]
                 ELSE IF loop.updated
                 THEN [self |-> after, result |-> Ok(after)]
                 ELSE [self |-> after, result |-> Err(ErrNothingUndelegated)]

(***************************************************************************)
(* The node orchestrator (node/src/node.rs).  The collaborators are known  *)
(* by their interfaces: a call of one either succeeds, with its effect, or *)
(* fails, without.                                                         *)
(***************************************************************************)
\* The header and the commit of the n-th block the repository creates, and
\* the hash of a header.
BlockHeader(n) == [height |-> n]

BlockCommit(n) == <<"block-commit", n>>

to_hash256(header) == <<"hash", header.height>>

\* get_agendas(): the (CommitHash, Hash256) pairs of the valid agendas.
Agendas == << <<<<"agenda-commit", 1>>, <<"agenda-hash", 1>>>>,
              <<<<"agenda-commit", 2>>, <<"agenda-hash", 2>>>> >>

\* The commits a caller may pass to vote.
VoteCommits == {Agendas[k][1] : k \in DOMAIN Agendas} \cup {BlockCommit(1)}

Timestamps == 1..MaxTime

NodeErr(msg) == [returned |-> TRUE, ok |-> FALSE, err |-> msg, value |-> None]

NodeOk(value) == [returned |-> TRUE, ok |-> TRUE, err |-> <<>>, value |-> Some(value)]

Pending == [returned |-> FALSE, ok |-> FALSE, err |-> <<>>, value |-> None]

\* todo!() and unimplemented!(): the call panics and returns nothing.
Panicked(msg) == [returned |-> FALSE, ok |-> FALSE, err |-> <<"panicked", msg>>, value |-> None]

\* The error of a collaborator, passed on by `?`.
CollaboratorErr(call) == NodeErr(<<call>>)

ErrUnknownAgenda(agenda_commit) ==
    <<"the given commit hash ", agenda_commit, " is not one of the valid agendas">>

\* A call of a collaborator as the node made it: the method, its argument,
\* whether it succeeded and, if so, what it returned.
CallOf(method, arg, ok, ret) ==
    [method |-> method, arg |-> arg, ok |-> ok, ret |-> IF ok THEN Some(ret) ELSE None]

\* config.public_key: the node is run by the first member.
NodeKey == MemberKeys[1]

\* governance.read().votes: for an agenda hash, the public keys that voted.
NoVotes == [h \in {} |-> {}]

AddVote(votes, hash, key) ==
    [h \in DOMAIN votes \cup {hash} |->
        IF h = hash
        THEN (IF h \in DOMAIN votes THEN votes[h] ELSE {}) \cup {key}
        ELSE votes[h]]

\* No command has run yet.
NodeIdle ==
    /\ tasks = [t \in 1..3 |-> "none"]
    /\ pc = "idle"
    /\ nlast = [op |-> "initialize", arg |-> None, calls |-> <<>>, result |-> NodeOk(<<>>)]

\* The node as initialize leaves it, the governance collaborator holding the
\* votes recorded: no block has been finalized since last_reserved_state
\* (state) was read from the repository.
NodeStartWith(recorded) ==
    /\ repository = [blocks |-> 0, votes |-> {}, fetched |-> FALSE,
                     height |-> 0, finalized |-> None]
    /\ consensus = [verified |-> {}, candidate |-> None, fetched |-> FALSE]
    /\ governance = [votes |-> {}, fetched |-> FALSE, read |-> recorded]
    /\ NodeIdle

NodeStart == NodeStartWith(NoVotes)

(***************************************************************************)
(* create_block                                                            *)
(***************************************************************************)
\* The calls create_block makes and what it returns, the collaborators
\* answering created, registered and nominated: n is the number of the block
\* the repository creates, now the reading of get_timestamp().
create_block_unchecked(n, now, created, registered, nominated) ==
    LET header == BlockHeader(n)
        c1 == CallOf("repository.create_block", None, created, <<header, BlockCommit(n)>>)
        c2 == CallOf("consensus.register_verified_block_hash", to_hash256(header),
                     registered, <<>>)
        c3 == CallOf("consensus.set_proposal_candidate", <<to_hash256(header), now>>,
                     nominated, <<>>)
    IN  [calls |-> <<c1, c2, c3>>,
         result |-> IF created THEN NodeOk(BlockCommit(n)) ELSE CollaboratorErr(c1.method)]

create_block(n, now, created, registered, nominated) ==
    LET header == BlockHeader(n)
        c1 == CallOf("repository.create_block", None, created, <<header, BlockCommit(n)>>)
        c2 == CallOf("consensus.register_verified_block_hash", to_hash256(header),
                     registered, <<>>)
        c3 == CallOf("consensus.set_proposal_candidate", <<to_hash256(header), now>>,
                     nominated, <<>>)
    IN  IF ~created
        THEN [calls |-> <<c1>>, result |-> CollaboratorErr(c1.method)]
        ELSE IF ~registered
        THEN [calls |-> <<c1, c2>>, result |-> CollaboratorErr(c2.method)]
        ELSE IF ~nominated
        THEN [calls |-> <<c1, c2, c3>>, result |-> CollaboratorErr(c3.method)]
        ELSE [calls |-> <<c1, c2, c3>>, result |-> NodeOk(BlockCommit(n))]

(***************************************************************************)
(* vote                                                                    *)
(***************************************************************************)
\* valid_agendas.iter().find(|(x, _)| *x == agenda_commit)
RECURSIVE FindAgenda(_, _, _)
FindAgenda(valid_agendas, agenda_commit, k) ==
    IF k > Len(valid_agendas) THEN None
    ELSE IF valid_agendas[k][1] = agenda_commit THEN Some(valid_agendas[k])
    ELSE FindAgenda(valid_agendas, agenda_commit, k + 1)

\* A vote that casts the governance vote whatever the repository answered.
vote_unchecked(agenda_commit, listed, voted, governed) ==
    LET c0 == CallOf("repository.get_agendas", None, listed, Agendas)
        found == FindAgenda(Agendas, agenda_commit, 1)
        c1 == CallOf("repository.vote", agenda_commit, voted, <<>>)
        c2 == CallOf("governance.vote", found[1][2], governed, <<>>)
    IN  IF ~listed
        THEN [calls |-> <<c0>>, result |-> CollaboratorErr(c0.method)]
        ELSE IF found = None
        THEN [calls |-> <<c0>>, result |-> NodeErr(ErrUnknownAgenda(agenda_commit))]
        ELSE [calls |-> <<c0, c1, c2>>,
              result |-> IF ~voted THEN CollaboratorErr(c1.method)
                         ELSE IF ~governed THEN CollaboratorErr(c2.method)
                         ELSE NodeOk(<<>>)]

\* The calls vote makes and what it returns, the collaborators answering
\* listed, voted and governed.
vote(agenda_commit, listed, voted, governed) ==
    LET c0 == CallOf("repository.get_agendas", None, listed, Agendas)
        found == FindAgenda(Agendas, agenda_commit, 1)
        c1 == CallOf("repository.vote", agenda_commit, voted, <<>>)
        c2 == CallOf("governance.vote", found[1][2], governed, <<>>)
    IN  IF ~listed
        THEN [calls |-> <<c0>>, result |-> CollaboratorErr(c0.method)]
        ELSE IF found = None
        THEN [calls |-> <<c0>>, result |-> NodeErr(ErrUnknownAgenda(agenda_commit))]
        ELSE IF ~voted
        THEN [calls |-> <<c0, c1>>, result |-> CollaboratorErr(c1.method)]
        ELSE IF ~governed
        THEN [calls |-> <<c0, c1, c2>>, result |-> CollaboratorErr(c2.method)]
        ELSE [calls |-> <<c0, c1, c2>>, result |-> NodeOk(<<>>)]

(***************************************************************************)
(* fetch: try_join! polls the three sub-fetches in the order written, each *)
(* until it has completed; the first failure it meets is returned at once  *)
(* and the sub-fetches still running are dropped with the join.            *)
(***************************************************************************)
Tasks == 1..3

TaskName == <<"governance.fetch", "consensus.fetch", "repository.fetch">>

Drop(ts) == [t \in Tasks |-> IF ts[t] = "pending" THEN "dropped" ELSE ts[t]]

\* A join that reports a failure only once every sub-fetch has completed.
RECURSIVE try_join_patient(_, _, _)
try_join_patient(ts, outcome, t) ==
    IF t > 3
    THEN IF \E u \in Tasks : ts[u] = "pending" THEN [tasks |-> ts, result |-> Pending]
         ELSE IF \E u \in Tasks : ts[u] = "err"
         THEN [tasks |-> ts,
               result |-> CollaboratorErr(TaskName[CHOOSE u \in Tasks : ts[u] = "err" /\
                                              \A v \in 1..(u - 1) : ts[v] # "err"])]
         ELSE [tasks |-> ts, result |-> NodeOk(<<>>)]
    ELSE IF ts[t] # "pending" THEN try_join_patient(ts, outcome, t + 1)
    ELSE try_join_patient([ts EXCEPT ![t] = outcome[t]], outcome, t + 1)

\* One poll of the join, from sub-fetch t on: outcome[t] is what a poll of
\* sub-fetch t yields.
RECURSIVE try_join(_, _, _)
try_join(ts, outcome, t) ==
    IF t > 3
    THEN IF \A u \in Tasks : ts[u] = "ok"
         THEN [tasks |-> ts, result |-> NodeOk(<<>>)]
         ELSE [tasks |-> ts, result |-> Pending]
    ELSE IF ts[t] # "pending" THEN try_join(ts, outcome, t + 1)
    ELSE IF outcome[t] = "err"
    THEN [tasks |-> Drop([ts EXCEPT ![t] = "err"]),
          result |-> CollaboratorErr(TaskName[t])]
    ELSE try_join([ts EXCEPT ![t] = outcome[t]], outcome, t + 1)

(***************************************************************************)
(* show                                                                    *)
(***************************************************************************)
\* The raw commits of the repository: read_semantic_commit(commit_hash)
\* returns the semantic commit stored under commit_hash.
IsMember(self, key) == \E i \in DOMAIN self.members : self.members[i].public_key = key

SemanticCommit(kind, n) == [title |-> kind, body |-> n]

StoredCommits ==
    {<<"agenda-commit", 1>>, <<"agenda-commit", 2>>, BlockCommit(1),
     <<"agenda-proof-commit", 1>>, <<"transaction-commit", 1>>,
     <<"garbled-commit", 1>>}

read_semantic_commit(commit_hash) ==
    IF commit_hash[1] = "agenda-commit" THEN SemanticCommit(">agenda", commit_hash[2])
    ELSE IF commit_hash[1] = "block-commit" THEN SemanticCommit(">block", commit_hash[2])
    ELSE IF commit_hash[1] = "agenda-proof-commit"
    THEN SemanticCommit(">agenda-proof", commit_hash[2])
    ELSE IF commit_hash[1] = "transaction-commit"
    THEN SemanticCommit("transaction", commit_hash[2])
    ELSE SemanticCommit("", commit_hash[2])

\* simperby_repository::format::from_semantic_commit: the Commit a semantic
\* commit encodes, or an error.
from_semantic_commit(semantic_commit) ==
    IF semantic_commit.title = ">block"
    THEN Some([commit |-> "Block", content |-> BlockHeader(semantic_commit.body)])
    ELSE IF semantic_commit.title = ">agenda"
    THEN Some([commit |-> "Agenda", content |-> [height |-> semantic_commit.body]])
    ELSE IF semantic_commit.title = ">agenda-proof"
    THEN Some([commit |-> "AgendaProof", content |-> [height |-> semantic_commit.body]])
    ELSE IF semantic_commit.title = "transaction"
    THEN Some([commit |-> "Transaction", content |-> [height |-> semantic_commit.body]])
    ELSE None

\* Agenda::to_hash256
agenda_to_hash256(agenda) == <<"agenda-hash", agenda.height>>

\* format!("{:?}", x)
DebugFormat(x) == <<"Debug", x>>

\* votes.get(&hash).unwrap_or(&Default::default())
VotesFor(votes, hash) == IF hash \in DOMAIN votes THEN votes[hash] ELSE {}

\* VotersOf keeping a voter that is no member, under the empty name.
RECURSIVE VotersOfUnfiltered(_, _)
VotersOfUnfiltered(self, keys) ==
    IF keys = {} THEN EmptyBag
    ELSE LET public_key == CHOOSE k \in keys : TRUE
             name == query_name(self, public_key)
         IN  (IF name = None THEN SetToBag({<<"", 0>>}) ELSE SetToBag({<<name[1], 0>>}))
             (+) VotersOfUnfiltered(self, keys \ {public_key})

\* .iter().filter_map(|public_key| query_name(public_key).map(|x| (x, 0)))
\* .collect(): one (name, 0) for every key that is a member's, in the order
\* of the set's iterator.
RECURSIVE VotersOf(_, _)
VotersOf(self, keys) ==
    IF keys = {} THEN EmptyBag
    ELSE LET public_key == CHOOSE k \in keys : TRUE
             name == query_name(self, public_key)
         IN  (IF name = None THEN EmptyBag ELSE SetToBag({<<name[1], 0>>}))
             (+) VotersOf(self, keys \ {public_key})

\* A show that rejects a commit that is neither Block, Agenda nor AgendaProof.
show_strict(last_reserved_state, commit_hash, stored, recorded, votes) ==
    LET c1 == CallOf("repository.read_semantic_commit", commit_hash, stored,
                     read_semantic_commit(commit_hash))
        semantic_commit == c1.ret[1]
        decoded == from_semantic_commit(semantic_commit)
        c2 == CallOf("governance.read", None, recorded, votes)
    IN  IF ~stored
        THEN [calls |-> <<c1>>, result |-> CollaboratorErr(c1.method)]
        ELSE IF decoded = None
        THEN [calls |-> <<c1>>, result |-> NodeErr(<<"from_semantic_commit">>)]
        ELSE IF decoded[1].commit = "Block"
        THEN [calls |-> <<c1>>,
              result |-> NodeOk([kind |-> "Block", semantic_commit |-> semantic_commit,
                                 block_header |-> decoded[1].content])]
        ELSE IF decoded[1].commit = "Agenda"
        THEN IF ~recorded
             THEN [calls |-> <<c1, c2>>, result |-> CollaboratorErr(c2.method)]
             ELSE [calls |-> <<c1, c2>>,
                   result |-> NodeOk(
                       [kind |-> "Agenda", semantic_commit |-> semantic_commit,
                        agenda |-> decoded[1].content,
                        voters |-> VotersOf(last_reserved_state,
                                            VotesFor(votes,
                                                     agenda_to_hash256(decoded[1].content)))])]
        ELSE IF decoded[1].commit = "AgendaProof"
        THEN [calls |-> <<c1>>,
              result |-> NodeOk([kind |-> "AgendaProof", semantic_commit |-> semantic_commit,
                                 agenda_proof |-> decoded[1].content])]
        ELSE [calls |-> <<c1>>, result |-> NodeErr(<<"unknown commit">>)]

\* The calls show makes and what it returns: stored and recorded are the
\* answers of repository.read_semantic_commit and governance.read, votes
\* the votes governance.read returns.
show(last_reserved_state, commit_hash, stored, recorded, votes) ==
    LET c1 == CallOf("repository.read_semantic_commit", commit_hash, stored,
                     read_semantic_commit(commit_hash))
        semantic_commit == c1.ret[1]
        decoded == from_semantic_commit(semantic_commit)
        c2 == CallOf("governance.read", None, recorded, votes)
    IN  IF ~stored
        THEN [calls |-> <<c1>>, result |-> CollaboratorErr(c1.method)]
        ELSE IF decoded = None
        THEN [calls |-> <<c1>>, result |-> NodeErr(<<"from_semantic_commit">>)]
        ELSE IF decoded[1].commit = "Block"
        THEN [calls |-> <<c1>>,
              result |-> NodeOk([kind |-> "Block", semantic_commit |-> semantic_commit,
                                 block_header |-> decoded[1].content])]
        ELSE IF decoded[1].commit = "Agenda"
        THEN IF ~recorded
             THEN [calls |-> <<c1, c2>>, result |-> CollaboratorErr(c2.method)]
             ELSE [calls |-> <<c1, c2>>,
                   result |-> NodeOk(
                       [kind |-> "Agenda", semantic_commit |-> semantic_commit,
                        agenda |-> decoded[1].content,
                        voters |-> VotersOf(last_reserved_state,
                                            VotesFor(votes,
                                                     agenda_to_hash256(decoded[1].content)))])]
        ELSE IF decoded[1].commit = "AgendaProof"
        THEN [calls |-> <<c1>>,
              result |-> NodeOk([kind |-> "AgendaProof", semantic_commit |-> semantic_commit,
                                 agenda_proof |-> decoded[1].content])]
        ELSE [calls |-> <<c1>>,
              result |-> NodeOk([kind |-> "Unknown", semantic_commit |-> semantic_commit,
                                 msg |-> DebugFormat(decoded[1])])]

(***************************************************************************)
(* clean, progress_for_consensus and the commands that are not implemented *)
(***************************************************************************)
\* self.repository.clean().await
clean(hard, cleaned) ==
    LET c1 == CallOf("repository.clean", None, cleaned, <<>>)
    IN  [calls |-> <<c1>>,
         result |-> IF cleaned THEN NodeOk(<<>>) ELSE CollaboratorErr(c1.method)]

\* What consensus.progress returns: finalized is the reserved state of the
\* block the tick finalized, if it finalized one.
ProgressResult(finalized) == [finalized |-> finalized]

progress_for_consensus(now, progressed, result) ==
    LET c1 == CallOf("consensus.progress", now, progressed, result)
    IN  [calls |-> <<c1>>,
         result |-> IF progressed THEN NodeOk(DebugFormat(result))
                    ELSE CollaboratorErr(c1.method)]

\* The commands whose body is todo!() and those whose body is
\* unimplemented!().
TodoCommands == {"genesis", "sync", "get_consensus_status", "serve"}

UnimplementedCommands ==
    {"create_extra_agenda_transaction", "veto_round", "veto_block", "run",
     "get_network_status"}

\* The commands that take the node by value.
ConsumingCommands == {"run", "serve"}

\* A command that answers with an ordinary error.
not_implemented_as_error(op) ==
    [calls |-> <<>>, result |-> NodeErr(<<"not implemented">>)]

not_implemented(op) ==
    [calls |-> <<>>,
     result |-> IF op \in TodoCommands THEN Panicked("not yet implemented")
                ELSE Panicked("not implemented")]

\* The reserved state a finalized block may carry: the roster as it is, or
\* with the holder of StrangerKey admitted or removed.
Admitted(self) ==
    IF IsMember(self, StrangerKey)
    THEN [self EXCEPT !.members = SubSeq(@, 1, Len(@) - 1)]
    ELSE [self EXCEPT !.members = Append(@, [name |-> "member-0002",
                                              public_key |-> StrangerKey,
                                              consensus_voting_power |-> 1,
                                              governance_voting_power |-> 1,
                                              consensus_delegatee |-> None,
                                              governance_delegatee |-> None])]

\* The effects of the calls made, in the order made, on the collaborators.
RECURSIVE Effects(_, _, _)
Effects(calls, k, world) ==
    IF k > Len(calls) THEN world
    ELSE LET c == calls[k]
             next ==
                 IF ~c.ok THEN world
                 ELSE IF c.method = "repository.create_block"
                 THEN [world EXCEPT !.repository.blocks = @ + 1]
                 ELSE IF c.method = "consensus.register_verified_block_hash"
                 THEN [world EXCEPT !.consensus.verified = @ \cup {c.arg}]
                 ELSE IF c.method = "consensus.set_proposal_candidate"
                 THEN [world EXCEPT !.consensus.candidate = Some(c.arg)]
                 ELSE IF c.method = "repository.vote"
                 THEN [world EXCEPT !.repository.votes = @ \cup {c.arg}]
                 ELSE IF c.method = "governance.vote"
                 THEN [world EXCEPT !.governance.votes = @ \cup {c.arg},
                                    !.governance.read = AddVote(@, c.arg, NodeKey)]
                 ELSE IF c.method = "consensus.progress" /\ c.ret[1].finalized # None
                 THEN [world EXCEPT !.repository.height = @ + 1,
                                    !.repository.finalized = c.ret[1].finalized]
                 ELSE world
         IN  Effects(calls, k + 1, next)

(***************************************************************************)
(* The state machine: one ReservedState, mutated in place by the two       *)
(* transaction functions (both take &mut self).  prev is the ReservedState *)
(* before the last call, last the call and what it returned.  hist is the  *)
(* record of the calls of a recorded run.                                  *)
(***************************************************************************)
NoOut == [op |-> "none", result |-> [panicked |-> FALSE, value |-> EmptyBag]]

NoTx == [delegator |-> <<>>, delegatee |-> <<>>, governance |-> FALSE]

\* Every ReservedState over the roster whose delegatee names resolve.
WellFormedStates ==
    {ReservedState([i \in Idx |-> Member(i, PowerProfile(base)[i], cd[i], gd[i])]) :
        base \in 0..MaxBase, cd \in [Idx -> OptName], gd \in [Idx -> OptName]}

\* The states in which no member has delegated.
FreshStates ==
    {ReservedState([i \in Idx |-> Member(i, PowerProfile(base)[i], None, None)]) :
        base \in 0..MaxBase}

ReservedStart(states) ==
    /\ state \in states
    /\ prev = state
    /\ last = [op |-> "new", tx |-> NoTx, result |-> Ok(state)]
    /\ hist = <<>>
    /\ out = NoOut

Start(states) ==
    /\ ReservedStart(states)
    /\ NodeStart

Init == Start(WellFormedStates)

InitFresh == Start(FreshStates)

\* One call of op on the ReservedState, r being what the function yields.
Call(op, tx, r) ==
    /\ state' = r.self
    /\ prev' = state
    /\ last' = [op |-> op, tx |-> tx, result |-> r.result]
    /\ UNCHANGED <<queryVars, nodeVars>>

Record(op, tx, r) ==
    /\ Len(hist) < MaxTrace
    /\ hist' = Append(hist, [op |-> op, tx |-> tx, result |-> r.result,
                             pre |-> state, post |-> r.self])

ApplyDelegate(tx) ==
    /\ Call("apply_delegate", tx, apply_delegate(state, tx))
    /\ UNCHANGED hist

ApplyUndelegate(tx) ==
    /\ Call("apply_undelegate", tx, apply_undelegate(state, tx))
    /\ UNCHANGED hist

Next ==
    \/ \E tx \in Tx : ApplyDelegate(tx)
    \/ \E tx \in Tx : ApplyUndelegate(tx)

Spec == Init /\ [][Next]_vars

\* The same machine started from a state without delegations.
SpecFresh == InitFresh /\ [][Next]_vars

\* The same machine on a roster whose second member has the empty string for
\* its name (a MemberName is any String), started without delegations.
EmptyNameRoster == <<"member-0000", "">>

EmptyNameStates ==
    {[s EXCEPT !.members = [i \in Idx |-> [s.members[i] EXCEPT !.name = EmptyNameRoster[i]]],
               !.consensus_leader_order = <<"", "member-0000">>] :
        s \in FreshStates}

InitEmptyName == Start(EmptyNameStates)

SpecEmptyName == InitEmptyName /\ [][Next]_vars

(***************************************************************************)
(* The voting-power sets as functions of the ReservedState: the states of  *)
(* a roster of four members, as the tests build them, and the two queries. *)
(***************************************************************************)
WideKeys == << <<2, 10>>, <<3, 11>>, <<2, 13>>, <<3, 14>> >>

WideNames == <<"member-0000", "member-0001", "member-0002", "member-0003">>

WideIdx == DOMAIN WideKeys

WideOptName == {None} \cup {Some(WideNames[i]) : i \in WideIdx}

\* Equal powers 1, as create_member sets them, or distinct powers that make
\* every set of members have its own sum.
WidePowers ==
    {[i \in WideIdx |-> [consensus |-> 1, governance |-> 1]]}
    \cup {[i \in WideIdx |->
              [consensus  |-> (2 ^ (i - 1)) * (base + 1),
               governance |-> (2 ^ (i - 1)) * (base + 1) + 16 * (base + 1)]] :
            base \in 0..MaxBase}

\* The delegations d as consensus delegations, as governance delegations, or
\* as both.
WideMember(i, power, d, fields) ==
    [public_key              |-> WideKeys[i],
     name                    |-> WideNames[i],
     governance_voting_power |-> power.governance,
     consensus_voting_power  |-> power.consensus,
     governance_delegatee    |-> IF fields = "consensus" THEN None ELSE d,
     consensus_delegatee     |-> IF fields = "governance" THEN None ELSE d]

WideStates ==
    {[genesis_info           |-> GenesisInfo,
      members                |-> [i \in WideIdx |-> WideMember(i, power[i], d[i], fields)],
      consensus_leader_order |-> WideNames,
      version                |-> "0.1.0"] :
        power \in WidePowers,
        d \in [WideIdx -> WideOptName],
        fields \in {"consensus", "governance", "both"}}

InitQuery == Start(WideStates)

GetValidatorSet ==
    /\ out' = [op |-> "get_validator_set", result |-> get_validator_set(state)]
    /\ UNCHANGED <<reservedVars, nodeVars>>

GetGovernanceSet ==
    /\ out' = [op |-> "get_governance_set", result |-> get_governance_set(state)]
    /\ UNCHANGED <<reservedVars, nodeVars>>

NextQuery ==
    \/ GetValidatorSet
    \/ GetGovernanceSet

SpecQuery == InitQuery /\ [][NextQuery]_vars

\* Recorded runs: at most MaxTrace calls from a state without delegations.
RecordedDelegate(tx) ==
    /\ Call("apply_delegate", tx, apply_delegate(state, tx))
    /\ Record("apply_delegate", tx, apply_delegate(state, tx))

RecordedUndelegate(tx) ==
    /\ Call("apply_undelegate", tx, apply_undelegate(state, tx))
    /\ Record("apply_undelegate", tx, apply_undelegate(state, tx))

NextTrace ==
    \/ \E tx \in Tx : RecordedDelegate(tx)
    \/ \E tx \in Tx : RecordedUndelegate(tx)

SpecTrace == InitFresh /\ [][NextTrace]_vars

(***************************************************************************)
(* The node as a state machine: every command borrows the node mutably, so *)
(* one command runs at a time.                                             *)
(***************************************************************************)
\* The reserved state the node caches at initialize.
CachedStates ==
    {ReservedState([i \in Idx |-> Member(i, PowerProfile(0)[i], None, None)])}

InitNode == Start(CachedStates)

\* A command, which is called on an idle node, awaits one collaborator call
\* after another: no other command of the node runs in between.
Command(op, arg, r) ==
    LET world == Effects(r.calls, 1, [repository |-> repository,
                                      consensus  |-> consensus,
                                      governance |-> governance])
    IN  /\ repository' = world.repository
        /\ consensus' = world.consensus
        /\ governance' = world.governance
        /\ nlast' = [op |-> op, arg |-> arg, calls |-> r.calls, result |-> r.result]
        /\ UNCHANGED <<tasks, pc, reservedVars, queryVars>>

CreateBlock ==
    /\ pc = "idle"
    /\ repository.blocks < MaxBlocks
    /\ \E now \in Timestamps, created, registered, nominated \in BOOLEAN :
           Command("create_block", None,
                   create_block(repository.blocks + 1, now, created, registered, nominated))

Vote ==
    /\ pc = "idle"
    /\ \E agenda_commit \in VoteCommits, listed, voted, governed \in BOOLEAN :
           Command("vote", Some(agenda_commit),
                   vote(agenda_commit, listed, voted, governed))

\* fetch is entered: the three sub-fetches exist and none has been polled.
BeginFetch ==
    /\ pc = "idle"
    /\ pc' = "fetch"
    /\ tasks' = [t \in Tasks |-> "pending"]
    /\ nlast' = [op |-> "fetch", arg |-> None, calls |-> <<>>, result |-> Pending]
    /\ UNCHANGED <<repository, consensus, governance, reservedVars, queryVars>>

\* A poll of the join that undoes, when the join fails, the effects of the
\* sub-fetches that succeeded.
PollFetchRollingBack ==
    /\ pc = "fetch"
    /\ \E outcome \in [Tasks -> {"pending", "ok", "err"}] :
           LET r == try_join(tasks, outcome, 1)
               kept == r.result.ok \/ ~r.result.returned
           IN  /\ r.tasks # tasks
               /\ tasks' = r.tasks
               /\ nlast' = [nlast EXCEPT !.result = r.result]
               /\ pc' = IF r.result.returned THEN "idle" ELSE "fetch"
               /\ governance' = [governance EXCEPT
                                    !.fetched = kept /\ (@ \/ r.tasks[1] = "ok")]
               /\ consensus' = [consensus EXCEPT
                                   !.fetched = kept /\ (@ \/ r.tasks[2] = "ok")]
               /\ repository' = [repository EXCEPT
                                    !.fetched = kept /\ (@ \/ r.tasks[3] = "ok")]
    /\ UNCHANGED <<reservedVars, queryVars>>

\* The executor polls the join; a sub-fetch that completes with success has
\* had its effect on its collaborator.
PollFetch ==
    /\ pc = "fetch"
    /\ \E outcome \in [Tasks -> {"pending", "ok", "err"}] :
           LET r == try_join(tasks, outcome, 1)
           IN  /\ r.tasks # tasks
               /\ tasks' = r.tasks
               /\ nlast' = [nlast EXCEPT !.result = r.result]
               /\ pc' = IF r.result.returned THEN "idle" ELSE "fetch"
               /\ governance' = [governance EXCEPT !.fetched = @ \/ r.tasks[1] = "ok"]
               /\ consensus' = [consensus EXCEPT !.fetched = @ \/ r.tasks[2] = "ok"]
               /\ repository' = [repository EXCEPT !.fetched = @ \/ r.tasks[3] = "ok"]
    /\ UNCHANGED <<reservedVars, queryVars>>

NextNode ==
    \/ CreateBlock
    \/ Vote
    \/ BeginFetch
    \/ PollFetch

SpecNode == InitNode /\ [][NextNode]_vars

(***************************************************************************)
(* The node's other commands, run on a node whose governance collaborator  *)
(* holds recorded votes.                                                   *)
(***************************************************************************)
AgendaHashes == {Agendas[k][2] : k \in DOMAIN Agendas}

\* The votes the governance collaborator may hold: for each agenda hash of
\* a set of them, a set of public keys.
RecordedVotes == UNION {[D -> SUBSET Keys] : D \in SUBSET AgendaHashes}

InitApi ==
    /\ ReservedStart(CachedStates)
    /\ \E recorded \in RecordedVotes : NodeStartWith(recorded)

Show ==
    /\ pc = "idle"
    /\ \E commit_hash \in StoredCommits, stored, recorded \in BOOLEAN :
           Command("show", Some(commit_hash),
                   show(state, commit_hash, stored, recorded, governance.read))

Clean ==
    /\ pc = "idle"
    /\ \E hard, cleaned \in BOOLEAN :
           Command("clean", Some(hard), clean(hard, cleaned))

\* repository.get_reserved_state(): the reserved state of the last finalized
\* block, which is the one initialize read until a block is finalized.
get_reserved_state ==
    IF repository.finalized = None THEN state ELSE repository.finalized[1]

\* The blocks a tick of the consensus may finalize.
Finalizable ==
    IF repository.height < MaxFinalized
    THEN {Some(get_reserved_state), Some(Admitted(get_reserved_state))}
    ELSE {}

ProgressForConsensus ==
    /\ pc = "idle"
    /\ \E now \in Timestamps, progressed \in BOOLEAN,
          finalized \in {None} \cup Finalizable :
           Command("progress_for_consensus", None,
                   progress_for_consensus(now, progressed, ProgressResult(finalized)))

\* A command that panics; one that took the node by value leaves no node.
NotImplemented ==
    /\ pc = "idle"
    /\ \E op \in TodoCommands \cup UnimplementedCommands :
           /\ nlast' = [op |-> op, arg |-> None, calls |-> not_implemented(op).calls,
                        result |-> not_implemented(op).result]
           /\ pc' = IF op \in ConsumingCommands THEN "consumed" ELSE pc
    /\ UNCHANGED <<repository, consensus, governance, tasks, reservedVars, queryVars>>

NextApi ==
    \/ Show
    \/ Clean
    \/ ProgressForConsensus
    \/ NotImplemented

SpecApi == InitApi /\ [][NextApi]_vars

(***************************************************************************)
(* Properties.                                                             *)
(***************************************************************************)
IsCall == last.op \in {"apply_delegate", "apply_undelegate"}

\* The members of self whose public key is key.
Holders(self, key) == {i \in DOMAIN self.members : self.members[i].public_key = key}

IsMemberKey(self, key) == Holders(self, key) # {}

RECURSIVE SumOver(_, _)
SumOver(f, S) ==
    IF S = {} THEN 0
    ELSE LET x == CHOOSE y \in S : TRUE IN f[x] + SumOver(f, S \ {x})

\* The sum of consensus_voting_power over the members listed in S.
ConsensusPowerOf(self, S) ==
    SumOver([i \in DOMAIN self.members |-> self.members[i].consensus_voting_power], S)

TotalConsensusPower(self) == ConsensusPowerOf(self, DOMAIN self.members)

TotalGovernancePower(self) ==
    SumOver([i \in DOMAIN self.members |-> self.members[i].governance_voting_power],
            DOMAIN self.members)

\* The sum of the powers of a bag of (public_key, voting_power) pairs.
PowerSum(pairs) ==
    SumOver([p \in BagToSet(pairs) |-> p[2] * CopiesIn(p, pairs)], BagToSet(pairs))

\* C1: whenever apply_delegate or apply_undelegate returns an error, the
\* ReservedState it was called on equals, field for field, its value
\* before the call.
C1_RejectedLeavesStateUntouched ==
    (IsCall /\ ~last.result.ok) => state = prev

\* C2: in every state reachable from a well-formed ReservedState by calls
\* of apply_delegate and apply_undelegate, get_validator_set() returns and
\* the sum of its powers is the sum of consensus_voting_power over all
\* members.
C2_ValidatorPowerConserved ==
    LET vs == get_validator_set(state)
    IN  /\ ~vs.panicked
        /\ PowerSum(vs.value) = TotalConsensusPower(state)

\* A successful apply_delegate has just put the power of all members into
\* the bucket of one member.
C2_Witness ==
    /\ last.op = "apply_delegate" /\ last.result.ok
    /\ state # prev
    /\ \E p \in BagToSet(get_validator_set(state).value) :
           p[2] = TotalConsensusPower(state)

\* The members get_governance_set routes to the member named name.
GovernanceRouted(self, name) ==
    {i \in DOMAIN self.members :
        IF self.members[i].governance_delegatee = None
        THEN self.members[i].name = name
        ELSE self.members[i].governance_delegatee = Some(name)}

\* C3: get_governance_set() routes each member by governance_delegatee (own
\* name when unset) and credits consensus_voting_power: the pairs it returns
\* are, for every member some member is routed to, that member's key with the
\* sum of consensus_voting_power of the members routed to it, and the total
\* is the sum of consensus_voting_power over all members.
C3_GovernanceSetCreditsConsensusPower ==
    LET gs == get_governance_set(state)
        holders == {i \in DOMAIN state.members :
                       GovernanceRouted(state, state.members[i].name) # {}}
    IN  /\ ~gs.panicked
        /\ BagToSet(gs.value) =
               {<<state.members[i].public_key,
                  ConsensusPowerOf(state, GovernanceRouted(state, state.members[i].name))>> :
                   i \in holders}
        /\ \A p \in BagToSet(gs.value) : CopiesIn(p, gs.value) = 1
        /\ PowerSum(gs.value) = TotalConsensusPower(state)

\* A successful apply_delegate with governance = true has routed a member to
\* another one, in a state where the governance powers differ from the
\* consensus powers.
C3_Witness ==
    /\ last.op = "apply_delegate" /\ last.result.ok /\ last.tx.governance
    /\ \E i \in DOMAIN state.members :
           /\ state.members[i].governance_delegatee \notin {None, Some(state.members[i].name)}
           /\ state.members[i].governance_delegatee # prev.members[i].governance_delegatee
    /\ TotalGovernancePower(state) # TotalConsensusPower(state)
    /\ PowerSum(get_governance_set(state).value) = TotalConsensusPower(state)

\* Member i has governance_delegatee set and consensus_delegatee unset.
GovernanceOnly(self, i) ==
    /\ self.members[i].governance_delegatee # None
    /\ self.members[i].consensus_delegatee = None

\* C4 as stated: in every state reachable from a state without delegations,
\* no member has governance_delegatee set while consensus_delegatee is unset.
C4_GovernanceImpliesConsensus ==
    \A i \in DOMAIN state.members : ~GovernanceOnly(state, i)

\* C4 as amended: from a state without delegations, a member comes to have
\* governance_delegatee set and consensus_delegatee unset only by a
\* successful apply_undelegate with governance = false of that member, made
\* while both its delegatee fields were set; no apply_delegate and no other
\* apply_undelegate produces that combination.
C4_GovernanceOnlyByConsensusUndelegate ==
    [][\A i \in DOMAIN state.members :
          (GovernanceOnly(state', i) /\ ~GovernanceOnly(state, i)) =>
              /\ last'.op = "apply_undelegate"
              /\ last'.result.ok
              /\ ~last'.tx.governance
              /\ last'.tx.delegator = state.members[i].public_key
              /\ state.members[i].consensus_delegatee # None
              /\ state.members[i].governance_delegatee # None
              /\ state'.members[i].governance_delegatee =
                     state.members[i].governance_delegatee]_vars

\* A successful apply_undelegate with governance = false has just left a
\* member with only its governance delegation.
C4_Witness ==
    /\ last.op = "apply_undelegate" /\ last.result.ok /\ ~last.tx.governance
    /\ \E i \in DOMAIN state.members :
           /\ GovernanceOnly(state, i)
           /\ ~GovernanceOnly(prev, i)

\* C5: from a state in which every delegatee names a member, after any
\* calls of apply_delegate and apply_undelegate (successful or rejected)
\* every consensus_delegatee and governance_delegatee resolves through
\* query_public_key, and neither get_validator_set() nor get_governance_set()
\* meets a bucket key that does not resolve.
C5_DelegateesResolve ==
    /\ \A i \in DOMAIN state.members :
           /\ state.members[i].consensus_delegatee # None =>
                  query_public_key(state, state.members[i].consensus_delegatee[1]) # None
           /\ state.members[i].governance_delegatee # None =>
                  query_public_key(state, state.members[i].governance_delegatee[1]) # None
    /\ ~get_validator_set(state).panicked
    /\ ~get_governance_set(state).panicked

\* A successful apply_delegate has just written a new delegatee name, which
\* resolves.
C5_Witness ==
    /\ last.op = "apply_delegate" /\ last.result.ok
    /\ \E i \in DOMAIN state.members :
           /\ state.members[i].consensus_delegatee # None
           /\ state.members[i].consensus_delegatee # prev.members[i].consensus_delegatee
           /\ query_public_key(state, state.members[i].consensus_delegatee[1]) # None

\* C6: a successful apply_delegate or apply_undelegate changes nothing but
\* consensus_delegatee and governance_delegatee of the one member whose
\* public key is tx.delegator: genesis_info, consensus_leader_order, version,
\* the number and order of the members, each member's name, public_key and
\* voting powers, and the delegatee fields of the other members are as
\* before (and the value returned is that state).
C6_SuccessChangesOnlyDelegatorFields ==
    (IsCall /\ last.result.ok) =>
        /\ state.genesis_info = prev.genesis_info
        /\ state.consensus_leader_order = prev.consensus_leader_order
        /\ state.version = prev.version
        /\ Len(state.members) = Len(prev.members)
        /\ Cardinality(Holders(prev, last.tx.delegator)) = 1
        /\ \A i \in DOMAIN prev.members :
               /\ [state.members[i] EXCEPT
                       !.consensus_delegatee = prev.members[i].consensus_delegatee,
                       !.governance_delegatee = prev.members[i].governance_delegatee]
                      = prev.members[i]
               /\ prev.members[i].public_key # last.tx.delegator =>
                      state.members[i] = prev.members[i]
        /\ last.result.value = Some(state)

\* A successful call has changed the delegator while another member, itself
\* delegated, stayed as it was.
C6_Witness ==
    /\ IsCall /\ last.result.ok
    /\ state # prev
    /\ \E j \in DOMAIN state.members :
           /\ state.members[j].public_key # last.tx.delegator
           /\ state.members[j].consensus_delegatee # None
           /\ state.members[j].governance_delegatee # None

\* C7: a successful apply_delegate sets consensus_delegatee of the delegator
\* to the delegatee's name, and governance_delegatee too when tx.governance,
\* leaving governance_delegatee as it was otherwise, whatever the delegator's
\* delegations were; and apply_delegate of an already delegated member to a
\* member returns no error.
C7_DelegateSetsFields ==
    last.op = "apply_delegate" =>
        /\ last.result.ok =>
               /\ IsMemberKey(prev, last.tx.delegator)
               /\ IsMemberKey(prev, last.tx.delegatee)
               /\ \A i \in Holders(prev, last.tx.delegator) :
                  \A j \in Holders(prev, last.tx.delegatee) :
                      /\ state.members[i].consensus_delegatee = Some(prev.members[j].name)
                      /\ state.members[i].governance_delegatee =
                             IF last.tx.governance
                             THEN Some(prev.members[j].name)
                             ELSE prev.members[i].governance_delegatee
        /\ ( /\ IsMemberKey(prev, last.tx.delegatee)
             /\ \E i \in Holders(prev, last.tx.delegator) :
                    prev.members[i].consensus_delegatee # None )
               => last.result.ok

\* A member whose two delegations went to one member has re-delegated its
\* consensus power alone to another: the governance delegation stayed.
C7_Witness ==
    /\ last.op = "apply_delegate" /\ last.result.ok /\ ~last.tx.governance
    /\ \E i \in Holders(prev, last.tx.delegator) :
           /\ prev.members[i].consensus_delegatee # None
           /\ prev.members[i].governance_delegatee = prev.members[i].consensus_delegatee
           /\ state.members[i].consensus_delegatee # prev.members[i].consensus_delegatee
           /\ state.members[i].governance_delegatee = prev.members[i].governance_delegatee

\* Calls k and k + 1 of a recorded run are a successful apply_delegate of a
\* member without delegations, with the given governance flag, and an
\* apply_undelegate with governance = false of the same delegator.
DelegateThenConsensusUndelegate(k, flag) ==
    /\ k \in 1..(Len(hist) - 1)
    /\ hist[k].op = "apply_delegate"
    /\ hist[k].result.ok
    /\ hist[k].tx.governance = flag
    /\ \A i \in Holders(hist[k].pre, hist[k].tx.delegator) :
           /\ hist[k].pre.members[i].consensus_delegatee = None
           /\ hist[k].pre.members[i].governance_delegatee = None
    /\ hist[k + 1].op = "apply_undelegate"
    /\ hist[k + 1].tx.delegator = hist[k].tx.delegator
    /\ ~hist[k + 1].tx.governance

\* C8: for a member without delegations, apply_delegate(governance = true)
\* followed by apply_undelegate(governance = false) succeeds and leaves
\* consensus_delegatee unset and governance_delegatee equal to the
\* delegatee's name.
C8_UndelegateAsymmetry ==
    \A k \in 1..(Len(hist) - 1) :
        DelegateThenConsensusUndelegate(k, TRUE) =>
            /\ hist[k + 1].result.ok
            /\ \A i \in Holders(hist[k].pre, hist[k].tx.delegator) :
               \A j \in Holders(hist[k].pre, hist[k].tx.delegatee) :
                   /\ hist[k + 1].post.members[i].consensus_delegatee = None
                   /\ hist[k + 1].post.members[i].governance_delegatee =
                          Some(hist[k].pre.members[j].name)

\* The two calls have been made, to another member, and the ReservedState
\* is what the second left.
C8_Witness ==
    /\ Len(hist) = 2
    /\ DelegateThenConsensusUndelegate(1, TRUE)
    /\ hist[1].tx.delegatee # hist[1].tx.delegator
    /\ hist[2].result.ok
    /\ state = hist[2].post
    /\ \E i \in DOMAIN state.members : GovernanceOnly(state, i)

\* C9: for a member without delegations and any member as delegatee,
\* apply_delegate(governance = false) followed by apply_undelegate(
\* governance = false) of the same delegator succeeds and yields a
\* ReservedState equal to the one before the two calls.
C9_ConsensusDelegateUndelegateInverse ==
    \A k \in 1..(Len(hist) - 1) :
        DelegateThenConsensusUndelegate(k, FALSE) =>
            /\ hist[k + 1].result.ok
            /\ hist[k + 1].result.value = Some(hist[k].pre)
            /\ hist[k + 1].post = hist[k].pre

\* The two calls have been made: the first changed the ReservedState, the
\* second restored it.
C9_Witness ==
    /\ Len(hist) = 2
    /\ DelegateThenConsensusUndelegate(1, FALSE)
    /\ hist[1].post # hist[1].pre
    /\ hist[2].result.ok
    /\ state = hist[1].pre

\* apply_delegate returned one of the two unknown-member errors.
UnknownMember(result) ==
    /\ ~result.ok
    /\ result.err \in {ErrDelegatorUnknown, ErrDelegateeUnknown}

\* C10: apply_delegate fails with the unknown-member error exactly when
\* tx.delegator or tx.delegatee is not the public key of a member; the
\* state is then unchanged; and when both keys are members' the call
\* succeeds.
C10_UnknownMemberExactly ==
    last.op = "apply_delegate" =>
        LET known == /\ IsMemberKey(prev, last.tx.delegator)
                     /\ IsMemberKey(prev, last.tx.delegatee)
        IN  /\ UnknownMember(last.result) <=> ~known
            /\ ~known => state = prev
            /\ known => last.result.ok

\* apply_delegate of a member to a key that is no member's has just been
\* rejected, in a state that holds delegations.
C10_Witness ==
    /\ last.op = "apply_delegate"
    /\ IsMemberKey(prev, last.tx.delegator)
    /\ ~IsMemberKey(prev, last.tx.delegatee)
    /\ last.result = Err(ErrDelegateeUnknown)
    /\ state = prev
    /\ \E i \in DOMAIN state.members : state.members[i].consensus_delegatee # None

\* C11: apply_undelegate succeeds if and only if tx.delegator is a member
\* whose consensus_delegatee is set and, when tx.governance, whose
\* governance_delegatee is set too; it fails with the unknown-member error
\* when the delegator is no member and with a not-delegated error when a
\* required delegatee field is unset; on success consensus_delegatee is
\* None, and governance_delegatee is None when tx.governance.
C11_UndelegateOutcome ==
    last.op = "apply_undelegate" =>
        LET holders == Holders(prev, last.tx.delegator)
            delegated ==
                \E i \in holders :
                    /\ prev.members[i].consensus_delegatee # None
                    /\ last.tx.governance => prev.members[i].governance_delegatee # None
        IN  /\ last.result.ok <=> delegated
            /\ holders = {} => last.result = Err(ErrDelegatorUnknown)
            /\ (holders # {} /\ ~delegated) =>
                   /\ ~last.result.ok
                   /\ last.result.err \in {ErrConsensusNotSet, ErrGovernanceNotSet}
                   /\ \A i \in holders :
                          last.result.err =
                              IF prev.members[i].consensus_delegatee = None
                              THEN ErrConsensusNotSet
                              ELSE ErrGovernanceNotSet
            /\ last.result.ok =>
                   \A i \in holders :
                       /\ state.members[i].consensus_delegatee = None
                       /\ last.tx.governance =>
                              state.members[i].governance_delegatee = None

\* apply_undelegate with governance = true has just cleared both delegatee
\* fields of a member.
C11_Witness ==
    /\ last.op = "apply_undelegate" /\ last.result.ok /\ last.tx.governance
    /\ \E i \in Holders(prev, last.tx.delegator) :
           /\ prev.members[i].consensus_delegatee # None
           /\ prev.members[i].governance_delegatee # None
           /\ state.members[i].consensus_delegatee = None
           /\ state.members[i].governance_delegatee = None

\* C12: apply_delegate rejects the transaction with the invalid-delegatee
\* error, and sets no delegatee field, whenever the name tx.delegatee
\* resolves to is the empty string (the delegator being a member).
C12_EmptyDelegateeNameRejected ==
    ( /\ last.op = "apply_delegate"
      /\ IsMemberKey(prev, last.tx.delegator)
      /\ query_name(prev, last.tx.delegatee) = Some("") )
        => /\ last.result = Err(ErrDelegateeEmpty)
           /\ state = prev

\* The members whose consensus power get_validator_set routes to name.
ConsensusRouted(self, name) ==
    {i \in DOMAIN self.members :
        IF self.members[i].consensus_delegatee = None
        THEN self.members[i].name = name
        ELSE self.members[i].consensus_delegatee = Some(name)}

\* The state has equal powers 1 and the consensus delegations cd.
TestRoster(self, cd) ==
    /\ \A i \in DOMAIN self.members :
           /\ self.members[i].consensus_voting_power = 1
           /\ self.members[i].consensus_delegatee = cd[i]

ThreeToFourth ==
    <<Some(WideNames[4]), Some(WideNames[4]), Some(WideNames[4]), None>>

TwoPairs == <<Some(WideNames[2]), None, Some(WideNames[4]), None>>

\* C13: get_validator_set(), as a set, holds exactly one pair per bucket
\* holder: the key of member m is there if and only if m has no
\* consensus_delegatee or is the consensus_delegatee of some member, with the
\* sum of consensus_voting_power of the members routed to m; so three of
\* four power-1 members delegating to the fourth give {(key_4, 4)}, and the
\* pairs 0->1, 2->3 give {(key_1, 2), (key_3, 2)}.
C13_ValidatorSetPairs ==
    out.op = "get_validator_set" =>
        LET holders ==
                {m \in DOMAIN state.members :
                    \/ state.members[m].consensus_delegatee = None
                    \/ \E x \in DOMAIN state.members :
                           state.members[x].consensus_delegatee = Some(state.members[m].name)}
            pairs == BagToSet(out.result.value)
        IN  /\ ~out.result.panicked
            /\ pairs = {<<state.members[m].public_key,
                          ConsensusPowerOf(state, ConsensusRouted(state, state.members[m].name))>> :
                           m \in holders}
            /\ \A p \in pairs : CopiesIn(p, out.result.value) = 1
            /\ {p[1] : p \in pairs} = {state.members[m].public_key : m \in holders}
            /\ Cardinality(pairs) = Cardinality(holders)
            /\ TestRoster(state, ThreeToFourth) => pairs = {<<WideKeys[4], 4>>}
            /\ TestRoster(state, TwoPairs) => pairs = {<<WideKeys[2], 2>>, <<WideKeys[4], 2>>}

\* get_validator_set() has returned the single pair of the member three
\* others delegated to.
C13_Witness ==
    /\ out.op = "get_validator_set"
    /\ TestRoster(state, ThreeToFourth)
    /\ out.result.value = SetToBag({<<WideKeys[4], 4>>})

\* The power a set of pairs holds for a key; -1 when the key is absent.
PowerAt(pairs, key) ==
    IF \E p \in BagToSet(pairs) : p[1] = key
    THEN (CHOOSE p \in BagToSet(pairs) : p[1] = key)[2]
    ELSE -1

\* In self, read through the delegatee field f, member a delegates to
\* member b and b to member c, the three being distinct.
Chain(self, f, a, b, c) ==
    /\ a # b /\ b # c /\ a # c
    /\ f[a] = Some(self.members[b].name)
    /\ f[b] = Some(self.members[c].name)

\* What the set must hold for the chain a -> b -> c: at b's key the powers of
\* the members that name b, b's own not among them; at c's key the powers of
\* those routed to c itself, a's not among them.
SingleLevel(self, f, pairs, a, b, c) ==
    LET naming(m) == {x \in DOMAIN self.members : f[x] = Some(self.members[m].name)}
        own(m) == IF f[m] = None THEN {m} ELSE {}
    IN  /\ a \in naming(b) /\ b \notin naming(b)
        /\ PowerAt(pairs, self.members[b].public_key) = ConsensusPowerOf(self, naming(b))
        /\ b \in naming(c) /\ a \notin naming(c) \cup own(c)
        /\ PowerAt(pairs, self.members[c].public_key) =
               ConsensusPowerOf(self, naming(c) \cup own(c))

ConsensusField(self) == [i \in DOMAIN self.members |-> self.members[i].consensus_delegatee]

GovernanceField(self) == [i \in DOMAIN self.members |-> self.members[i].governance_delegatee]

\* C14: aggregation is single-level.  When A delegates to B and B to C,
\* get_validator_set() credits A's consensus_voting_power to B's key and B's
\* own to C's key, never A's to C, and B is in the output with A's power; and
\* so does get_governance_set() over governance_delegatee.
C14_SingleLevel ==
    \A a, b, c \in DOMAIN state.members :
        /\ (out.op = "get_validator_set" /\ Chain(state, ConsensusField(state), a, b, c))
               => SingleLevel(state, ConsensusField(state), out.result.value, a, b, c)
        /\ (out.op = "get_governance_set" /\ Chain(state, GovernanceField(state), a, b, c))
               => SingleLevel(state, GovernanceField(state), out.result.value, a, b, c)

\* get_validator_set() has returned for a chain 1 -> 2 -> 3 with distinct
\* powers: the second member's key holds the first one's power alone.
C14_Witness ==
    /\ out.op = "get_validator_set"
    /\ Chain(state, ConsensusField(state), 1, 2, 3)
    /\ state.members[4].consensus_delegatee = None
    /\ state.members[3].consensus_delegatee = None
    /\ state.members[1].consensus_voting_power # state.members[2].consensus_voting_power
    /\ PowerAt(out.result.value, WideKeys[2]) = state.members[1].consensus_voting_power
    /\ PowerAt(out.result.value, WideKeys[3]) =
           state.members[2].consensus_voting_power + state.members[3].consensus_voting_power

\* The last call is a successful apply_delegate of member i to member j,
\* neither of which had a delegation before it.
DelegatedUndelegated(i, j) ==
    /\ last.op = "apply_delegate" /\ last.result.ok
    /\ i \in Holders(prev, last.tx.delegator)
    /\ j \in Holders(prev, last.tx.delegatee)
    /\ prev.members[i].consensus_delegatee = None
    /\ prev.members[i].governance_delegatee = None
    /\ prev.members[j].consensus_delegatee = None
    /\ prev.members[j].governance_delegatee = None

\* The delegatee's power in the validator set, and in the governance set
\* when tx.governance, has grown by the delegator's consensus_voting_power.
DelegateeGrew(i, j) ==
    /\ PowerAt(get_validator_set(state).value, prev.members[j].public_key) =
           PowerAt(get_validator_set(prev).value, prev.members[j].public_key)
               + prev.members[i].consensus_voting_power
    /\ last.tx.governance =>
           PowerAt(get_governance_set(state).value, prev.members[j].public_key) =
               PowerAt(get_governance_set(prev).value, prev.members[j].public_key)
                   + prev.members[i].consensus_voting_power

\* A successful apply_delegate with governance = false leaves
\* get_governance_set() the same set.
ConsensusOnlyKeepsGovernanceSet ==
    (last.op = "apply_delegate" /\ last.result.ok /\ ~last.tx.governance) =>
        BagToSet(get_governance_set(state).value) = BagToSet(get_governance_set(prev).value)

\* C15 as stated: a successful consensus-only apply_delegate leaves
\* get_governance_set() unchanged as a set, and for a previously undelegated
\* delegator and an undelegated delegatee the delegatee's power grows by the
\* delegator's consensus_voting_power in get_validator_set(), and in both
\* sets when governance = true.
C15_DelegateeGrows ==
    /\ ConsensusOnlyKeepsGovernanceSet
    /\ \A i, j \in DOMAIN prev.members : DelegatedUndelegated(i, j) => DelegateeGrew(i, j)

\* C15 as amended: the same, for a delegatee that is another member than
\* the delegator (a member that delegates to itself keeps its own power and
\* gains none).
C15_OtherDelegateeGrows ==
    /\ ConsensusOnlyKeepsGovernanceSet
    /\ \A i, j \in DOMAIN prev.members :
           (DelegatedUndelegated(i, j) /\ i # j) => DelegateeGrew(i, j)
    /\ \A i \in DOMAIN prev.members :
           DelegatedUndelegated(i, i) =>
               /\ BagToSet(get_validator_set(state).value) =
                      BagToSet(get_validator_set(prev).value)
               /\ BagToSet(get_governance_set(state).value) =
                      BagToSet(get_governance_set(prev).value)

\* A consensus-only apply_delegate to another member has just raised that
\* member's validator-set power and left its governance-set power.
C15_Witness ==
    /\ ~last.tx.governance
    /\ \E i, j \in DOMAIN prev.members :
           /\ i # j
           /\ DelegatedUndelegated(i, j)
           /\ PowerAt(get_validator_set(state).value, prev.members[j].public_key) =
                  prev.members[j].consensus_voting_power + prev.members[i].consensus_voting_power
           /\ PowerAt(get_governance_set(state).value, prev.members[j].public_key) =
                  prev.members[j].consensus_voting_power

(***************************************************************************)
(* The node's commands.                                                    *)
(***************************************************************************)
IsCommand(op) == nlast.op = op /\ nlast.result.returned

\* The positions of the calls of a method among the calls of the last command.
CallsOf(method) == {k \in DOMAIN nlast.calls : nlast.calls[k].method = method}

\* C16: in create_block, set_proposal_candidate(h, t) is called only after
\* register_verified_block_hash(h) succeeded for the same h, which is called
\* only after the repository's create_block succeeded and returned the header
\* whose hash is h; the commit identifier is returned only if all three calls
\* succeeded, and no call follows a failed one.
C16_CreateBlockOrder ==
    IsCommand("create_block") =>
        LET calls == nlast.calls
        IN  /\ \A k \in CallsOf("consensus.set_proposal_candidate") :
                   \E j \in CallsOf("consensus.register_verified_block_hash") :
                       /\ j < k /\ calls[j].ok /\ calls[j].arg = calls[k].arg[1]
            /\ \A j \in CallsOf("consensus.register_verified_block_hash") :
                   \E i \in CallsOf("repository.create_block") :
                       /\ i < j /\ calls[i].ok
                       /\ to_hash256(calls[i].ret[1][1]) = calls[j].arg
            /\ nlast.result.ok =>
                   /\ Len(calls) = 3
                   /\ \A k \in DOMAIN calls : calls[k].ok
                   /\ nlast.result.value = Some(calls[1].ret[1][2])
            /\ \A k \in DOMAIN calls : ~calls[k].ok => k = Len(calls)

\* A create_block whose three calls were made, the last one failing.
C16_Witness ==
    /\ IsCommand("create_block") /\ ~nlast.result.ok
    /\ Len(nlast.calls) = 3
    /\ repository.blocks = 1
    /\ consensus.verified # {}

\* C17: after a create_block that returned a failure, the hash it registered
\* as verified, if any, is the node's proposal candidate.
C17_NoPartialRegistration ==
    (IsCommand("create_block") /\ ~nlast.result.ok) =>
        \A k \in CallsOf("consensus.register_verified_block_hash") :
            nlast.calls[k].arg \in consensus.verified =>
                /\ consensus.candidate # None
                /\ consensus.candidate[1][1] = nlast.calls[k].arg

\* The commit identifiers get_agendas() returned to the last vote.
ListedCommits ==
    {nlast.calls[1].ret[1][k][1] : k \in DOMAIN nlast.calls[1].ret[1]}

\* The agenda hash get_agendas() paired with a commit.
PairedHash(agenda_commit) ==
    LET agendas == nlast.calls[1].ret[1]
    IN  agendas[CHOOSE k \in DOMAIN agendas : agendas[k][1] = agenda_commit][2]

\* A vote whose get_agendas() call returned the agendas.
VoteListed == IsCommand("vote") /\ nlast.calls[1].ok

\* The part of C18 about a commit that is not among the agendas.
UnknownAgendaRejected ==
    (VoteListed /\ nlast.arg[1] \notin ListedCommits) =>
        /\ nlast.result = NodeErr(ErrUnknownAgenda(nlast.arg[1]))
        /\ CallsOf("repository.vote") = {}
        /\ CallsOf("governance.vote") = {}

\* C18: vote(agenda_commit) fails with the unknown-agenda error when the
\* commit is not among those get_agendas() returned, and then calls neither
\* repository.vote nor governance.vote; when it is among them,
\* governance.vote is called with the hash paired with the commit.
C18_VoteLooksUpAgenda ==
    /\ UnknownAgendaRejected
    /\ (VoteListed /\ nlast.arg[1] \in ListedCommits) =>
           \E k \in CallsOf("governance.vote") :
               nlast.calls[k].arg = PairedHash(nlast.arg[1])

\* C18 as the code has it: for a commit among the agendas, governance.vote
\* is called, with the paired hash, exactly when repository.vote was called
\* with the commit and succeeded.
C18_VoteLooksUpAgendaThenRepository ==
    /\ UnknownAgendaRejected
    /\ (VoteListed /\ nlast.arg[1] \in ListedCommits) =>
           /\ \E k \in CallsOf("repository.vote") : nlast.calls[k].arg = nlast.arg[1]
           /\ \A k \in CallsOf("governance.vote") :
                  nlast.calls[k].arg = PairedHash(nlast.arg[1])
           /\ (CallsOf("governance.vote") # {}) <=>
                  (\E k \in CallsOf("repository.vote") : nlast.calls[k].ok)

\* A vote for a listed agenda whose repository.vote succeeded and whose
\* governance.vote, called with the paired hash, failed.
C18_Witness ==
    /\ VoteListed
    /\ nlast.arg[1] \in ListedCommits
    /\ CallsOf("governance.vote") # {}
    /\ ~nlast.result.ok

\* C19: when vote has returned, the vote is recorded in the repository if
\* and only if it is recorded in the governance collaborator.
C19_VoteRecordedInBothOrNeither ==
    IsCommand("vote") =>
        LET agenda_commit == nlast.arg[1]
            found == FindAgenda(Agendas, agenda_commit, 1)
        IN  (agenda_commit \in repository.votes) <=>
                (found # None /\ found[1][2] \in governance.votes)

\* C20: fetch returns success if and only if the three sub-fetches returned
\* success; it has returned a failure as soon as one of them has failed; and
\* it has not returned unless all three completed or one failed.
C20_FetchJoinsAll ==
    nlast.op = "fetch" =>
        /\ (nlast.result.returned /\ nlast.result.ok) <=> (\A t \in Tasks : tasks[t] = "ok")
        /\ (\E t \in Tasks : tasks[t] = "err") => (nlast.result.returned /\ ~nlast.result.ok)
        /\ nlast.result.returned =>
               \/ \A t \in Tasks : tasks[t] \in {"ok", "err"}
               \/ \E t \in Tasks : tasks[t] = "err"

\* A fetch that returned the failure of the consensus sub-fetch after the
\* governance sub-fetch succeeded, the repository sub-fetch still running.
C20_Witness ==
    /\ IsCommand("fetch") /\ ~nlast.result.ok
    /\ tasks = <<"ok", "err", "dropped">>

\* Whether the collaborator of sub-fetch t holds the effect of a fetch.
Fetched(t) ==
    IF t = 1 THEN governance.fetched
    ELSE IF t = 2 THEN consensus.fetched
    ELSE repository.fetched

\* C21: when fetch has reported the failure of a sub-fetch, no other
\* sub-fetch has been cancelled: each still runs or has completed.
C21_InFlightNotCancelled ==
    (IsCommand("fetch") /\ ~nlast.result.ok) =>
        \A t \in Tasks : tasks[t] \in {"pending", "ok", "err"}

\* C22: after a fetch that returned a failure, every collaborator whose
\* sub-fetch had succeeded holds the effect of its fetch; a failed fetch
\* with one or two such collaborators is reachable.
C22_FailedFetchKeepsEffects ==
    (IsCommand("fetch") /\ ~nlast.result.ok) =>
        \A t \in Tasks : tasks[t] = "ok" => Fetched(t)

\* A fetch that returned the failure of the repository sub-fetch after the
\* governance and consensus sub-fetches had succeeded; the repository holds
\* no effect of a fetch.
C22_Witness ==
    /\ IsCommand("fetch") /\ ~nlast.result.ok
    /\ tasks = <<"ok", "ok", "err">>
    /\ governance.fetched /\ consensus.fetched /\ ~repository.fetched

\* The names of the members of self.
NamesOf(self) == {self.members[i].name : i \in DOMAIN self.members}

\* voters is, for every member name, as many (name, 0) as there are keys
\* among keys that query_name resolves to it on self, and nothing else.
ResolvedVoters(self, keys, voters) ==
    /\ \A name \in NamesOf(self) :
           CopiesIn(<<name, 0>>, voters) =
               Cardinality({k \in keys : query_name(self, k) = Some(name)})
    /\ BagToSet(voters) \subseteq {<<name, 0>> : name \in NamesOf(self)}

\* The show that has returned an Agenda.
ShownAgenda ==
    /\ IsCommand("show") /\ nlast.result.ok
    /\ nlast.result.value[1].kind = "Agenda"

\* C23: show changes no state of the node; for an Agenda commit whose raw
\* commit and whose governance record were read, it succeeds and its voters
\* are the names query_name resolves, on the cached last_reserved_state,
\* from the keys governance recorded for the agenda's hash: keys of no
\* member are omitted and no recorded vote gives no voter.
C23_ShowResolvesVoters ==
    [][nlast'.op = "show" =>
           /\ UNCHANGED <<state, repository, consensus, governance, tasks, pc>>
           /\ LET calls == nlast'.calls
                  decoded == from_semantic_commit(calls[1].ret[1])
              IN  (/\ calls[1].ok
                   /\ decoded # None
                   /\ decoded[1].commit = "Agenda"
                   /\ Len(calls) = 2 /\ calls[2].method = "governance.read"
                   /\ calls[2].ok) =>
                      LET keys == VotesFor(governance.read,
                                           agenda_to_hash256(decoded[1].content))
                          info == nlast'.result.value[1]
                      IN  /\ nlast'.result.ok
                          /\ info.kind = "Agenda"
                          /\ ResolvedVoters(state, keys, info.voters)
                          /\ keys = {} => info.voters = EmptyBag
           /\ (nlast'.result.ok /\ nlast'.result.value[1].kind = "Agenda") =>
                  /\ Len(nlast'.calls) = 2
                  /\ nlast'.calls[2].ok]_vars

\* show has returned an agenda for which governance recorded the votes of a
\* member and of a key that is no member's: the one voter is the member.
C23_Witness ==
    /\ ShownAgenda
    /\ \E h \in DOMAIN governance.read :
           /\ h = agenda_to_hash256(nlast.result.value[1].agenda)
           /\ governance.read[h] = {MemberKeys[2], StrangerKey}
    /\ nlast.result.value[1].voters = SetToBag({<<MemberNames[2], 0>>})

\* C24: when the raw commit was read and decoded, show returns a commit that
\* is neither Block, Agenda nor AgendaProof as Unknown with the raw semantic
\* commit, returns Block and AgendaProof without calling governance, and
\* fails only if the governance record of an Agenda could not be read.
C24_ShowNeverFailsOnKind ==
    IsCommand("show") =>
        LET calls == nlast.calls
            decoded == from_semantic_commit(calls[1].ret[1])
        IN  (calls[1].ok /\ decoded # None) =>
                LET commit == decoded[1].commit
                IN  /\ commit \notin {"Block", "Agenda", "AgendaProof"} =>
                           /\ nlast.result.ok
                           /\ nlast.result.value[1].kind = "Unknown"
                           /\ nlast.result.value[1].semantic_commit = calls[1].ret[1]
                    /\ commit \in {"Block", "AgendaProof"} =>
                           /\ nlast.result.ok
                           /\ nlast.result.value[1].kind = commit
                           /\ nlast.result.value[1].semantic_commit = calls[1].ret[1]
                           /\ CallsOf("governance.read") = {}
                    /\ ~nlast.result.ok =>
                           /\ commit = "Agenda"
                           /\ \E k \in CallsOf("governance.read") : ~calls[k].ok

\* show has returned a commit of another kind as Unknown.
C24_Witness ==
    /\ IsCommand("show") /\ nlast.result.ok
    /\ nlast.result.value[1].kind = "Unknown"
    /\ nlast.arg = Some(<<"transaction-commit", 1>>)

\* C25: each command that is not implemented panics: it returns neither
\* success nor an error value, calls no collaborator and changes neither the
\* collaborators nor the cached reserved state.
C25_NotImplementedPanics ==
    [][nlast'.op \in TodoCommands \cup UnimplementedCommands =>
           /\ ~nlast'.result.returned
           /\ ~nlast'.result.ok
           /\ nlast'.result.value = None
           /\ nlast'.result.err \in {<<"panicked", "not yet implemented">>,
                                      <<"panicked", "not implemented">>}
           /\ nlast'.calls = <<>>
           /\ UNCHANGED <<state, repository, consensus, governance, tasks>>]_vars

\* veto_block has just panicked on a node that has finalized a block.
C25_Witness ==
    /\ nlast.op = "veto_block"
    /\ nlast.result = Panicked("not implemented")
    /\ repository.height = 1
    /\ pc = "idle"

\* C26: clean(hard) calls the repository's cleanup with the caller's flag
\* and returns what the repository returned.
C26_CleanPassesHard ==
    IsCommand("clean") =>
        /\ \E k \in CallsOf("repository.clean") : nlast.calls[k].arg = nlast.arg
        /\ nlast.result.ok <=> nlast.calls[1].ok

\* C27: show resolves the voters of an agenda on the reserved state of the
\* repository's last finalized block.
C27_ShowFollowsFinalized ==
    ShownAgenda =>
        ResolvedVoters(get_reserved_state,
                       VotesFor(governance.read,
                                agenda_to_hash256(nlast.result.value[1].agenda)),
                       nlast.result.value[1].voters)

(***************************************************************************)
(* The engine again: the defensive errors, the governance-only state and   *)
(* the delegatee of an undelegate transaction.                             *)
(***************************************************************************)
\* C28: apply_delegate, once both keys are resolved, updates the delegator
\* and never returns the nothing-was-delegated error; apply_undelegate, once
\* the delegator is resolved, never returns the nothing-was-undelegated
\* error: it succeeds or fails with a not-delegated error.
C28_DefensiveOutcomesUnreachable ==
    /\ (/\ last.op = "apply_delegate"
        /\ IsMemberKey(prev, last.tx.delegator)
        /\ IsMemberKey(prev, last.tx.delegatee)) =>
           /\ last.result.err # ErrNothingDelegated
           /\ \A i \in Holders(prev, last.tx.delegator) :
                  state.members[i].consensus_delegatee = query_name(prev, last.tx.delegatee)
    /\ (last.op = "apply_undelegate" /\ IsMemberKey(prev, last.tx.delegator)) =>
           /\ last.result.err # ErrNothingUndelegated
           /\ \/ last.result.ok
              \/ last.result.err \in {ErrConsensusNotSet, ErrGovernanceNotSet}

\* apply_delegate of a member to a member has just updated the delegator,
\* which was delegated elsewhere before.
C28_Witness ==
    /\ last.op = "apply_delegate" /\ last.result.ok
    /\ IsMemberKey(prev, last.tx.delegator)
    /\ \E i \in Holders(prev, last.tx.delegator) :
           /\ prev.members[i].consensus_delegatee # None
           /\ prev.members[i].consensus_delegatee # state.members[i].consensus_delegatee

\* C29: while a member has governance_delegatee set and consensus_delegatee
\* unset, every apply_undelegate for it fails and leaves the state as it
\* was, its governance_delegatee stays set over every call, and only a
\* successful apply_delegate for it ends that condition.
C29_GovernanceOnlyHolds ==
    [][\A i \in DOMAIN state.members :
           GovernanceOnly(state, i) =>
               /\ (/\ last'.op = "apply_undelegate"
                   /\ last'.tx.delegator = state.members[i].public_key) =>
                      /\ ~last'.result.ok
                      /\ state' = state
               /\ state'.members[i].governance_delegatee # None
               /\ ~GovernanceOnly(state', i) =>
                      /\ last'.op = "apply_delegate"
                      /\ last'.result.ok
                      /\ last'.tx.delegator = state.members[i].public_key]_vars

\* apply_undelegate with governance = true has just been rejected for a
\* member that has governance_delegatee set and consensus_delegatee unset.
C29_Witness ==
    /\ last.op = "apply_undelegate" /\ ~last.result.ok /\ last.tx.governance
    /\ \E i \in Holders(prev, last.tx.delegator) :
           GovernanceOnly(prev, i) /\ GovernanceOnly(state, i)

\* C30: two TxUndelegate that agree on delegator and governance have the
\* same result and leave the same state, whatever their delegatee.
C30_UndelegateIgnoresDelegatee ==
    \A tx1, tx2 \in Tx :
        (tx1.delegator = tx2.delegator /\ tx1.governance = tx2.governance) =>
            apply_undelegate(state, tx1) = apply_undelegate(state, tx2)

\* apply_undelegate has just succeeded with a delegatee that is no member's
\* key.
C30_Witness ==
    /\ last.op = "apply_undelegate" /\ last.result.ok
    /\ ~IsMemberKey(prev, last.tx.delegatee)

\* apply_delegate has just been called by a member naming itself.
SelfDelegation ==
    /\ last.op = "apply_delegate"
    /\ last.tx.delegator = last.tx.delegatee
    /\ IsMemberKey(prev, last.tx.delegator)

\* self with both delegatee fields of member i unset.
Undelegated(self, i) ==
    [self EXCEPT !.members[i].consensus_delegatee = None,
                 !.members[i].governance_delegatee = None]

\* The two sets of the state are those of the state with member i undelegated.
ValidatorSetAsUndelegated(i) ==
    BagToSet(get_validator_set(state).value) =
        BagToSet(get_validator_set(Undelegated(state, i)).value)

GovernanceSetAsUndelegated(i) ==
    BagToSet(get_governance_set(state).value) =
        BagToSet(get_governance_set(Undelegated(state, i)).value)

\* An apply_undelegate of member i, called on the state, succeeds.
UndelegateSucceeds(i, flag) ==
    apply_undelegate(state, [delegator  |-> state.members[i].public_key,
                             delegatee  |-> state.members[i].public_key,
                             governance |-> flag]).result.ok

\* The delegatee fields of member i after its self-delegation: its own name
\* in consensus_delegatee, and in governance_delegatee when governance = true.
SelfDelegateeSet(i) ==
    /\ last.result.ok
    /\ state.members[i].consensus_delegatee = Some(state.members[i].name)
    /\ last.tx.governance =>
           state.members[i].governance_delegatee = Some(state.members[i].name)

====
